---- MODULE Spec2Model ----
(***************************************************************************)
(* A model of npg-metadata-sync's ONT annotation (src/src/ont.py):         *)
(* annotate_results_collection, the tag identifier codec (tag_index,       *)
(* barcode_name), the metadata and ACL derivation (make_sample_metadata,   *)
(* make_study_metadata, make_sample_acl) and the warehouse query           *)
(* find_ont_plex_info, run against an iRODS-like store of collections and  *)
(* data objects carrying AVUs and access controls.                         *)
(*                                                                         *)
(* Representation.  A Python str is a sequence of one-character strings,   *)
(* so that parsing, padding and concatenation are computed and not         *)
(* assumed.  An optional value (a nullable column) is a sequence of length *)
(* 0 (None) or 1 (the value).  A path is a sequence of path components.    *)
(* A character outside ASCII is written by its code point, "U+0663" for    *)
(* ARABIC-INDIC DIGIT THREE.                                               *)
(***************************************************************************)
EXTENDS Integers, Sequences, FiniteSets, Bags, TLC

VARIABLES
    mlwh,       \* the OseqFlowcell rows of the (experiment, slot) in the warehouse
    nodes,      \* the paths that exist in the store (collections and data objects)
    meta,       \* path -> bag of AVUs
    acl,        \* path -> set of access controls [user, perm]
    pc,         \* position of annotate_results_collection: "idle", "loop"
    plex_info,  \* the query result the running invocation iterates over
    idx,        \* index in plex_info of the next row of the for loop
    coll,       \* the local variable coll: the path of the Collection it holds
    outcome,    \* how the last invocation ended: "none", "ok", "ValueError", "RodsError"
    done,       \* the rows whose loop body ran to its end, each with the path it annotated
    runs,       \* number of invocations started
    updates,    \* number of warehouse updates made
    prev,       \* the store as the running invocation found it, and the invocation before it
    cin,        \* codec / deriver input under the pure-function specifications
    cout        \* codec / deriver output under the pure-function specifications

vars == <<mlwh, nodes, meta, acl, pc, plex_info, idx, coll, outcome, done, runs,
          updates, prev, cin, cout>>

annotVars == <<mlwh, nodes, meta, acl, pc, plex_info, idx, coll, outcome, done,
               runs, updates, prev>>

(***************************************************************************)
(* Bounds of the model.                                                    *)
(***************************************************************************)
MaxPlex == 2        \* rows of one (experiment, slot) in the warehouse
MaxRuns == 2        \* invocations of annotate_results_collection
MaxLen == 4         \* length of the strings given to the codec

(***************************************************************************)
(* Strings.                                                                *)
(***************************************************************************)
None == <<>>
Some(v) == <<v>>
IsNone(o) == Len(o) = 0

\* The characters \d matches in a str pattern and int() converts: the
\* decimal digits of Unicode (category Nd), in runs of ten from the digit
\* zero of a script to its digit nine, in code point order.
DigitRuns ==
    << <<"0", "1", "2", "3", "4",
         "5", "6", "7", "8", "9">>,
       <<"U+0660", "U+0661", "U+0662", "U+0663", "U+0664",
         "U+0665", "U+0666", "U+0667", "U+0668", "U+0669">>,
       <<"U+06F0", "U+06F1", "U+06F2", "U+06F3", "U+06F4",
         "U+06F5", "U+06F6", "U+06F7", "U+06F8", "U+06F9">>,
       <<"U+07C0", "U+07C1", "U+07C2", "U+07C3", "U+07C4",
         "U+07C5", "U+07C6", "U+07C7", "U+07C8", "U+07C9">>,
       <<"U+0966", "U+0967", "U+0968", "U+0969", "U+096A",
         "U+096B", "U+096C", "U+096D", "U+096E", "U+096F">>,
       <<"U+09E6", "U+09E7", "U+09E8", "U+09E9", "U+09EA",
         "U+09EB", "U+09EC", "U+09ED", "U+09EE", "U+09EF">>,
       <<"U+0A66", "U+0A67", "U+0A68", "U+0A69", "U+0A6A",
         "U+0A6B", "U+0A6C", "U+0A6D", "U+0A6E", "U+0A6F">>,
       <<"U+0AE6", "U+0AE7", "U+0AE8", "U+0AE9", "U+0AEA",
         "U+0AEB", "U+0AEC", "U+0AED", "U+0AEE", "U+0AEF">>,
       <<"U+0B66", "U+0B67", "U+0B68", "U+0B69", "U+0B6A",
         "U+0B6B", "U+0B6C", "U+0B6D", "U+0B6E", "U+0B6F">>,
       <<"U+0BE6", "U+0BE7", "U+0BE8", "U+0BE9", "U+0BEA",
         "U+0BEB", "U+0BEC", "U+0BED", "U+0BEE", "U+0BEF">>,
       <<"U+0C66", "U+0C67", "U+0C68", "U+0C69", "U+0C6A",
         "U+0C6B", "U+0C6C", "U+0C6D", "U+0C6E", "U+0C6F">>,
       <<"U+0CE6", "U+0CE7", "U+0CE8", "U+0CE9", "U+0CEA",
         "U+0CEB", "U+0CEC", "U+0CED", "U+0CEE", "U+0CEF">>,
       <<"U+0D66", "U+0D67", "U+0D68", "U+0D69", "U+0D6A",
         "U+0D6B", "U+0D6C", "U+0D6D", "U+0D6E", "U+0D6F">>,
       <<"U+0DE6", "U+0DE7", "U+0DE8", "U+0DE9", "U+0DEA",
         "U+0DEB", "U+0DEC", "U+0DED", "U+0DEE", "U+0DEF">>,
       <<"U+0E50", "U+0E51", "U+0E52", "U+0E53", "U+0E54",
         "U+0E55", "U+0E56", "U+0E57", "U+0E58", "U+0E59">>,
       <<"U+0ED0", "U+0ED1", "U+0ED2", "U+0ED3", "U+0ED4",
         "U+0ED5", "U+0ED6", "U+0ED7", "U+0ED8", "U+0ED9">>,
       <<"U+0F20", "U+0F21", "U+0F22", "U+0F23", "U+0F24",
         "U+0F25", "U+0F26", "U+0F27", "U+0F28", "U+0F29">>,
       <<"U+1040", "U+1041", "U+1042", "U+1043", "U+1044",
         "U+1045", "U+1046", "U+1047", "U+1048", "U+1049">>,
       <<"U+1090", "U+1091", "U+1092", "U+1093", "U+1094",
         "U+1095", "U+1096", "U+1097", "U+1098", "U+1099">>,
       <<"U+17E0", "U+17E1", "U+17E2", "U+17E3", "U+17E4",
         "U+17E5", "U+17E6", "U+17E7", "U+17E8", "U+17E9">>,
       <<"U+1810", "U+1811", "U+1812", "U+1813", "U+1814",
         "U+1815", "U+1816", "U+1817", "U+1818", "U+1819">>,
       <<"U+1946", "U+1947", "U+1948", "U+1949", "U+194A",
         "U+194B", "U+194C", "U+194D", "U+194E", "U+194F">>,
       <<"U+19D0", "U+19D1", "U+19D2", "U+19D3", "U+19D4",
         "U+19D5", "U+19D6", "U+19D7", "U+19D8", "U+19D9">>,
       <<"U+1A80", "U+1A81", "U+1A82", "U+1A83", "U+1A84",
         "U+1A85", "U+1A86", "U+1A87", "U+1A88", "U+1A89">>,
       <<"U+1A90", "U+1A91", "U+1A92", "U+1A93", "U+1A94",
         "U+1A95", "U+1A96", "U+1A97", "U+1A98", "U+1A99">>,
       <<"U+1B50", "U+1B51", "U+1B52", "U+1B53", "U+1B54",
         "U+1B55", "U+1B56", "U+1B57", "U+1B58", "U+1B59">>,
       <<"U+1BB0", "U+1BB1", "U+1BB2", "U+1BB3", "U+1BB4",
         "U+1BB5", "U+1BB6", "U+1BB7", "U+1BB8", "U+1BB9">>,
       <<"U+1C40", "U+1C41", "U+1C42", "U+1C43", "U+1C44",
         "U+1C45", "U+1C46", "U+1C47", "U+1C48", "U+1C49">>,
       <<"U+1C50", "U+1C51", "U+1C52", "U+1C53", "U+1C54",
         "U+1C55", "U+1C56", "U+1C57", "U+1C58", "U+1C59">>,
       <<"U+A620", "U+A621", "U+A622", "U+A623", "U+A624",
         "U+A625", "U+A626", "U+A627", "U+A628", "U+A629">>,
       <<"U+A8D0", "U+A8D1", "U+A8D2", "U+A8D3", "U+A8D4",
         "U+A8D5", "U+A8D6", "U+A8D7", "U+A8D8", "U+A8D9">>,
       <<"U+A900", "U+A901", "U+A902", "U+A903", "U+A904",
         "U+A905", "U+A906", "U+A907", "U+A908", "U+A909">>,
       <<"U+A9D0", "U+A9D1", "U+A9D2", "U+A9D3", "U+A9D4",
         "U+A9D5", "U+A9D6", "U+A9D7", "U+A9D8", "U+A9D9">>,
       <<"U+A9F0", "U+A9F1", "U+A9F2", "U+A9F3", "U+A9F4",
         "U+A9F5", "U+A9F6", "U+A9F7", "U+A9F8", "U+A9F9">>,
       <<"U+AA50", "U+AA51", "U+AA52", "U+AA53", "U+AA54",
         "U+AA55", "U+AA56", "U+AA57", "U+AA58", "U+AA59">>,
       <<"U+ABF0", "U+ABF1", "U+ABF2", "U+ABF3", "U+ABF4",
         "U+ABF5", "U+ABF6", "U+ABF7", "U+ABF8", "U+ABF9">>,
       <<"U+FF10", "U+FF11", "U+FF12", "U+FF13", "U+FF14",
         "U+FF15", "U+FF16", "U+FF17", "U+FF18", "U+FF19">>,
       <<"U+104A0", "U+104A1", "U+104A2", "U+104A3", "U+104A4",
         "U+104A5", "U+104A6", "U+104A7", "U+104A8", "U+104A9">>,
       <<"U+10D30", "U+10D31", "U+10D32", "U+10D33", "U+10D34",
         "U+10D35", "U+10D36", "U+10D37", "U+10D38", "U+10D39">>,
       <<"U+11066", "U+11067", "U+11068", "U+11069", "U+1106A",
         "U+1106B", "U+1106C", "U+1106D", "U+1106E", "U+1106F">>,
       <<"U+110F0", "U+110F1", "U+110F2", "U+110F3", "U+110F4",
         "U+110F5", "U+110F6", "U+110F7", "U+110F8", "U+110F9">>,
       <<"U+11136", "U+11137", "U+11138", "U+11139", "U+1113A",
         "U+1113B", "U+1113C", "U+1113D", "U+1113E", "U+1113F">>,
       <<"U+111D0", "U+111D1", "U+111D2", "U+111D3", "U+111D4",
         "U+111D5", "U+111D6", "U+111D7", "U+111D8", "U+111D9">>,
       <<"U+112F0", "U+112F1", "U+112F2", "U+112F3", "U+112F4",
         "U+112F5", "U+112F6", "U+112F7", "U+112F8", "U+112F9">>,
       <<"U+11450", "U+11451", "U+11452", "U+11453", "U+11454",
         "U+11455", "U+11456", "U+11457", "U+11458", "U+11459">>,
       <<"U+114D0", "U+114D1", "U+114D2", "U+114D3", "U+114D4",
         "U+114D5", "U+114D6", "U+114D7", "U+114D8", "U+114D9">>,
       <<"U+11650", "U+11651", "U+11652", "U+11653", "U+11654",
         "U+11655", "U+11656", "U+11657", "U+11658", "U+11659">>,
       <<"U+116C0", "U+116C1", "U+116C2", "U+116C3", "U+116C4",
         "U+116C5", "U+116C6", "U+116C7", "U+116C8", "U+116C9">>,
       <<"U+11730", "U+11731", "U+11732", "U+11733", "U+11734",
         "U+11735", "U+11736", "U+11737", "U+11738", "U+11739">>,
       <<"U+118E0", "U+118E1", "U+118E2", "U+118E3", "U+118E4",
         "U+118E5", "U+118E6", "U+118E7", "U+118E8", "U+118E9">>,
       <<"U+11950", "U+11951", "U+11952", "U+11953", "U+11954",
         "U+11955", "U+11956", "U+11957", "U+11958", "U+11959">>,
       <<"U+11C50", "U+11C51", "U+11C52", "U+11C53", "U+11C54",
         "U+11C55", "U+11C56", "U+11C57", "U+11C58", "U+11C59">>,
       <<"U+11D50", "U+11D51", "U+11D52", "U+11D53", "U+11D54",
         "U+11D55", "U+11D56", "U+11D57", "U+11D58", "U+11D59">>,
       <<"U+11DA0", "U+11DA1", "U+11DA2", "U+11DA3", "U+11DA4",
         "U+11DA5", "U+11DA6", "U+11DA7", "U+11DA8", "U+11DA9">>,
       <<"U+16A60", "U+16A61", "U+16A62", "U+16A63", "U+16A64",
         "U+16A65", "U+16A66", "U+16A67", "U+16A68", "U+16A69">>,
       <<"U+16AC0", "U+16AC1", "U+16AC2", "U+16AC3", "U+16AC4",
         "U+16AC5", "U+16AC6", "U+16AC7", "U+16AC8", "U+16AC9">>,
       <<"U+16B50", "U+16B51", "U+16B52", "U+16B53", "U+16B54",
         "U+16B55", "U+16B56", "U+16B57", "U+16B58", "U+16B59">>,
       <<"U+1D7CE", "U+1D7CF", "U+1D7D0", "U+1D7D1", "U+1D7D2",
         "U+1D7D3", "U+1D7D4", "U+1D7D5", "U+1D7D6", "U+1D7D7">>,
       <<"U+1D7D8", "U+1D7D9", "U+1D7DA", "U+1D7DB", "U+1D7DC",
         "U+1D7DD", "U+1D7DE", "U+1D7DF", "U+1D7E0", "U+1D7E1">>,
       <<"U+1D7E2", "U+1D7E3", "U+1D7E4", "U+1D7E5", "U+1D7E6",
         "U+1D7E7", "U+1D7E8", "U+1D7E9", "U+1D7EA", "U+1D7EB">>,
       <<"U+1D7EC", "U+1D7ED", "U+1D7EE", "U+1D7EF", "U+1D7F0",
         "U+1D7F1", "U+1D7F2", "U+1D7F3", "U+1D7F4", "U+1D7F5">>,
       <<"U+1D7F6", "U+1D7F7", "U+1D7F8", "U+1D7F9", "U+1D7FA",
         "U+1D7FB", "U+1D7FC", "U+1D7FD", "U+1D7FE", "U+1D7FF">>,
       <<"U+1E140", "U+1E141", "U+1E142", "U+1E143", "U+1E144",
         "U+1E145", "U+1E146", "U+1E147", "U+1E148", "U+1E149">>,
       <<"U+1E2F0", "U+1E2F1", "U+1E2F2", "U+1E2F3", "U+1E2F4",
         "U+1E2F5", "U+1E2F6", "U+1E2F7", "U+1E2F8", "U+1E2F9">>,
       <<"U+1E950", "U+1E951", "U+1E952", "U+1E953", "U+1E954",
         "U+1E955", "U+1E956", "U+1E957", "U+1E958", "U+1E959">>,
       <<"U+1FBF0", "U+1FBF1", "U+1FBF2", "U+1FBF3", "U+1FBF4",
         "U+1FBF5", "U+1FBF6", "U+1FBF7", "U+1FBF8", "U+1FBF9">> >>

\* ord() of the digit zero of each run of DigitRuns
DigitRunOrd ==
    << 48, 1632, 1776, 1984, 2406, 2534, 2662, 2790, 2918, 3046,
       3174, 3302, 3430, 3558, 3664, 3792, 3872, 4160, 4240, 6112,
       6160, 6470, 6608, 6784, 6800, 6992, 7088, 7232, 7248, 42528,
       43216, 43264, 43472, 43504, 43600, 44016, 65296, 66720, 68912, 69734,
       69872, 69942, 70096, 70384, 70736, 70864, 71248, 71360, 71472, 71904,
       72016, 72784, 73040, 73120, 92768, 92864, 93008, 120782, 120792, 120802,
       120812, 120822, 123200, 123632, 125264, 130032 >>

DigitRun(r) == {DigitRuns[r][k] : k \in 1..10}

Digits == UNION {DigitRun(r) : r \in DOMAIN DigitRuns}

\* int(c) of one decimal digit
DigitVal(c) ==
    CHOOSE v \in 0..9 : \E r \in DOMAIN DigitRuns : DigitRuns[r][v + 1] = c

DigitChar(n) ==
    CASE n = 0 -> "0" [] n = 1 -> "1" [] n = 2 -> "2" [] n = 3 -> "3"
      [] n = 4 -> "4" [] n = 5 -> "5" [] n = 6 -> "6" [] n = 7 -> "7"
      [] n = 8 -> "8" [] n = 9 -> "9"

\* int(s) for a non-empty string of decimal digits
RECURSIVE ParseInt(_)
ParseInt(s) ==
    IF Len(s) = 0 THEN 0
    ELSE 10 * ParseInt(SubSeq(s, 1, Len(s) - 1)) + DigitVal(s[Len(s)])

\* str(n) for n >= 0
RECURSIVE IntToStr(_)
IntToStr(n) ==
    IF n < 10 THEN <<DigitChar(n)>>
    ELSE IntToStr(n \div 10) \o <<DigitChar(n % 10)>>

\* s.zfill(width) for a string of digits (no sign)
RECURSIVE ZFill(_, _)
ZFill(s, width) == IF Len(s) >= width THEN s ELSE ZFill(<<"0">> \o s, width)

\* The order of characters in the column's collation (code point order here).
Ord(c) ==
    CASE c = "\n" -> 10 [] c = "-" -> 45
      [] c \in Digits ->
            DigitRunOrd[CHOOSE r \in DOMAIN DigitRuns : c \in DigitRun(r)] + DigitVal(c)
      [] c = "a" -> 97 [] c = "b" -> 98 [] c = "c" -> 99
      [] OTHER -> 122

RECURSIVE StrLess(_, _)
StrLess(s, t) ==
    IF Len(t) = 0 THEN FALSE
    ELSE IF Len(s) = 0 THEN TRUE
    ELSE IF Ord(Head(s)) # Ord(Head(t)) THEN Ord(Head(s)) < Ord(Head(t))
    ELSE StrLess(Tail(s), Tail(t))

(***************************************************************************)
(* Identifier codec.                                                       *)
(***************************************************************************)
\* TAG_IDENTIFIER_REGEX.search(s): the start positions i of a match of
\* -(?P<tag_index>\d+)$ in s.  Python's $ matches at the end of the string
\* and also just before a newline that ends the string.
MatchEnds(s) ==
    {Len(s)} \cup (IF Len(s) > 0 /\ s[Len(s)] = "\n" THEN {Len(s) - 1} ELSE {})

MatchStarts(s) ==
    {i \in 1..Len(s) :
        /\ s[i] = "-"
        /\ \E e \in MatchEnds(s) :
              /\ e > i
              /\ \A k \in (i + 1)..e : s[k] \in Digits}

HasMatch(s) == MatchStarts(s) # {}

\* match.group("tag_index") of the leftmost match; \d+ is greedy
MatchGroup(s) ==
    LET i == CHOOSE j \in MatchStarts(s) : \A k \in MatchStarts(s) : j <= k
        e == CHOOSE x \in MatchEnds(s) :
                /\ x > i
                /\ \A k \in (i + 1)..x : s[k] \in Digits
                /\ \A y \in MatchEnds(s) :
                      (y > i /\ \A k \in (i + 1)..y : s[k] \in Digits) => y <= x
    IN  SubSeq(s, i + 1, e)

BarcodePrefix == <<"b", "a", "r", "c", "o", "d", "e">>

\* The result of a call: a value returned or an exception raised.
Ret(v) == [ok |-> TRUE, val |-> v]
Raise(e) == [ok |-> FALSE, err |-> e]

\* Mutation of tag_index: the index counted from zero.
tag_index_ZeroBased(tag_identifier) ==
    IF HasMatch(tag_identifier)
    THEN Ret(ParseInt(MatchGroup(tag_identifier)) - 1)
    ELSE Raise("ValueError")

tag_index(tag_identifier) ==
    IF HasMatch(tag_identifier)
    THEN Ret(ParseInt(MatchGroup(tag_identifier)))
    ELSE Raise("ValueError")

barcode_name(tag_identifier) ==
    IF HasMatch(tag_identifier)
    THEN Ret(BarcodePrefix \o ZFill(MatchGroup(tag_identifier), 2))
    ELSE Raise("ValueError")

(***************************************************************************)
(* Metadata deriver.                                                       *)
(***************************************************************************)
\* partisan's AVU(attribute, value, namespace=...): the value is kept as str(value)
AVU(attribute, value) == [namespace |-> "", attribute |-> attribute, value |-> value]

with_namespace(avu, namespace) == [avu EXCEPT !.namespace = namespace]

\* avu_if_value: None for a None value, else the AVU; as a list of 0 or 1 AVU
avu_if_value(attribute, value) ==
    IF ~IsNone(value) THEN <<AVU(attribute, value[1])>> ELSE <<>>

\* list(filter(lambda avu: avu is not None, starmap(avu_if_value, av)))
RECURSIVE StarmapFilter(_)
StarmapFilter(av) ==
    IF Len(av) = 0 THEN <<>>
    ELSE avu_if_value(av[1][1], av[1][2]) \o StarmapFilter(Tail(av))

make_sample_metadata(sample) ==
    StarmapFilter(<<
        <<"sample_id", sample.sanger_sample_id>>,
        <<"sample", sample.name>>,
        <<"sample_accession_number", sample.accession_number>>,
        <<"sample_donor_id", sample.donor_id>>,
        <<"sample_supplier_name", sample.supplier_name>>,
        <<"sample_consent_withdrawn",
          IF sample.consent_withdrawn THEN Some(IntToStr(1)) ELSE None>> >>)

make_study_metadata(study) ==
    StarmapFilter(<<
        <<"study_id", study.id_study_lims>>,
        <<"study", study.name>>,
        <<"study_accession_number", study.accession_number>> >>)

\* f"{x}" of an optional string
FormatOpt(o) == IF IsNone(o) THEN <<"N", "o", "n", "e">> ELSE o[1]

AC(user, perm) == [user |-> user, perm |-> perm]

\* f"ss_{study.id_study_lims}"
irods_group(study) == <<"s", "s", "_">> \o FormatOpt(study.id_study_lims)

make_sample_acl(sample, study) ==
    <<AC(irods_group(study), IF sample.consent_withdrawn THEN "null" ELSE "read")>>

(***************************************************************************)
(* The store: partisan's Collection over iRODS.                            *)
(***************************************************************************)
Root == << <<"r", "u", "n">> >>
ExperimentName == <<"e", "x", "p">>
InstrumentSlot == 1

IsUnder(q, p) == Len(q) > Len(p) /\ SubSeq(q, 1, Len(p)) = p

\* Collection.contents(recurse=True): every object stored beneath the path
Contents(ns, path) == {q \in ns : IsUnder(q, path)}

RECURSIVE BagOfSeq(_)
BagOfSeq(avus) ==
    IF Len(avus) = 0 THEN EmptyBag ELSE SetToBag({Head(avus)}) (+) BagOfSeq(Tail(avus))

SeqToSet(q) == {q[i] : i \in 1..Len(q)}

\* Mutation of AddMetadata: every argument AVU is added again, present or not.
AddMetadataAppend(m, ns, path, avus) ==
    IF path \notin ns THEN Raise("RodsError")
    ELSE Ret([m EXCEPT ![path] = @ (+) BagOfSeq(avus)])

\* Collection(path).add_metadata(*avus): adds the argument AVUs that are not
\* already present on the path (to_add = set(avus) - current); an AVU with
\* the same attribute and another value stays.  Raises when the path does
\* not exist.
AddMetadata(m, ns, path, avus) ==
    IF path \notin ns THEN Raise("RodsError")
    ELSE LET current == BagToSet(m[path])
             to_add == SeqToSet(avus) \ current
         IN  Ret([m EXCEPT ![path] = @ (+) SetToBag(to_add)])

\* Mutation of SetPermission: the access control set is the only one kept.
SetPermissionOnly(current, ac) == IF ac.perm = "null" THEN {} ELSE {ac}

\* iRODS keeps one access level per user on an object: setting a level
\* replaces the user's former level, and "null" removes the user's access.
SetPermission(current, ac) ==
    {x \in current : x.user # ac.user} \cup (IF ac.perm = "null" THEN {} ELSE {ac})

RECURSIVE SetPermissions(_, _)
SetPermissions(current, acs) ==
    IF Len(acs) = 0 THEN current
    ELSE SetPermissions(SetPermission(current, Head(acs)), Tail(acs))

\* Mutation of AddPermissions: the collection only, not what is beneath it.
AddPermissionsNoRecurse(a, ns, path, acs, recurse) ==
    IF path \notin ns THEN Raise("RodsError")
    ELSE Ret([a EXCEPT ![path] = SetPermissions(@, acs)])

\* Collection(path).add_permissions(*acs, recurse=recurse): sets the access
\* controls on the collection and, with recurse, on every item of its
\* contents.  Raises when the path does not exist.
AddPermissions(a, ns, path, acs, recurse) ==
    IF path \notin ns THEN Raise("RodsError")
    ELSE LET items == {path} \cup (IF recurse THEN Contents(ns, path) ELSE {})
         IN  Ret([q \in DOMAIN a |->
                    IF q \in items THEN SetPermissions(a[q], acs) ELSE a[q]])

(***************************************************************************)
(* The warehouse.                                                          *)
(***************************************************************************)
\* asc(OseqFlowcell.tag_identifier): NULL sorts first (as MySQL, the engine of
\* the warehouse, orders it), then by collation
OptLess(x, y) ==
    IF IsNone(y) THEN FALSE
    ELSE IF IsNone(x) THEN TRUE
    ELSE StrLess(x[1], y[1])

RECURSIVE SortRows(_)
SortRows(rows) ==
    IF rows = {} THEN <<>>
    ELSE LET first == CHOOSE r \in rows :
                        \A o \in rows \ {r} : OptLess(r.tag_identifier, o.tag_identifier)
         IN  <<first>> \o SortRows(rows \ {first})

\* find_ont_plex_info: the rows of the (experiment, slot), ordered by
\* tag_identifier.  The rows of one position differ in tag_identifier, so
\* the order is total; tag2_identifier is NULL throughout.
find_ont_plex_info(session) == SortRows(session)

(***************************************************************************)
(* annotate_results_collection.                                            *)
(***************************************************************************)
\* Python truth of fc.tag_identifier: None and "" are false
Truthy(o) == ~IsNone(o) /\ Len(o[1]) > 0

\* Mutation of InstrumentAVUs: the two AVUs without the ont namespace.
InstrumentAVUsNoNamespace ==
    <<AVU("experiment_name", ExperimentName),
      AVU("instrument_slot", IntToStr(InstrumentSlot))>>

InstrumentAVUs ==
    <<with_namespace(AVU("experiment_name", ExperimentName), "ont"),
      with_namespace(AVU("instrument_slot", IntToStr(InstrumentSlot)), "ont")>>

BodyResult(ok, err, m, a, c) == [ok |-> ok, err |-> err, meta |-> m, acl |-> a, coll |-> c]

\* The metadata and permission calls shared by both branches of the loop
\* body, on the collection at path p, after the calls before them left m.
AnnotateSampleStudy(m, a, ns, p, fc) ==
    LET m2 == AddMetadata(m, ns, p, make_study_metadata(fc.study)) IN
    IF ~m2.ok THEN BodyResult(FALSE, m2.err, m, a, p)
    ELSE
    LET m3 == AddMetadata(m2.val, ns, p, make_sample_metadata(fc.sample)) IN
    IF ~m3.ok THEN BodyResult(FALSE, m3.err, m2.val, a, p)
    ELSE
    LET a1 == AddPermissions(a, ns, p, make_sample_acl(fc.sample, fc.study), TRUE) IN
    IF ~a1.ok THEN BodyResult(FALSE, a1.err, m3.val, a, p)
    ELSE BodyResult(TRUE, "none", m3.val, a1.val, p)

\* Mutation of LoopBody: a row with a tag identifier is annotated on the
\* containing collection, as a row without one is.
LoopBodyRootOnly(m, a, ns, c, fc) == AnnotateSampleStudy(m, a, ns, Root, fc)

\* One iteration of "for fc in plex_info", from the store (m, a) and the
\* local coll = c: the store and coll after it, or the exception it raises
\* with what it changed before.
LoopBody(m, a, ns, c, fc) ==
    IF Truthy(fc.tag_identifier)
    THEN LET bn == barcode_name(fc.tag_identifier[1]) IN
         IF ~bn.ok THEN BodyResult(FALSE, bn.err, m, a, c)
         ELSE
         LET p == Root \o <<bn.val>>
             ti == tag_index(fc.tag_identifier[1])
         IN  IF ~ti.ok THEN BodyResult(FALSE, ti.err, m, a, p)
             ELSE
             LET m1 == AddMetadata(m, ns, p, <<AVU("tag_index", IntToStr(ti.val))>>) IN
             IF ~m1.ok THEN BodyResult(FALSE, m1.err, m, a, p)
             ELSE AnnotateSampleStudy(m1.val, a, ns, p, fc)
    ELSE AnnotateSampleStudy(m, a, ns, c, fc)

\* "for fc in plex_info" over the rows in the order given: the store and
\* coll after the last row, or the first exception with what was changed
\* before it.
RECURSIVE RunLoop(_, _, _, _, _)
RunLoop(m, a, ns, c, rows) ==
    IF rows = <<>> THEN BodyResult(TRUE, "none", m, a, c)
    ELSE LET r == LoopBody(m, a, ns, c, Head(rows)) IN
         IF ~r.ok THEN r
         ELSE RunLoop(r.meta, r.acl, ns, r.coll, Tail(rows))

(***************************************************************************)
(* The inputs of the model.                                                *)
(***************************************************************************)
Str_s1 == <<"s", "1">>
Str_s2 == <<"s", "2">>

Sample1 == [sanger_sample_id |-> None, name |-> Some(Str_s1),
            accession_number |-> None, donor_id |-> None,
            supplier_name |-> None, consent_withdrawn |-> FALSE]
Sample1W == [Sample1 EXCEPT !.consent_withdrawn = TRUE]
Sample2 == [sanger_sample_id |-> None, name |-> Some(Str_s2),
            accession_number |-> None, donor_id |-> None,
            supplier_name |-> None, consent_withdrawn |-> FALSE]

Study2 == [id_study_lims |-> Some(<<"0", "2">>), name |-> Some(<<"Y">>),
           accession_number |-> None]
Study3 == [id_study_lims |-> Some(<<"0", "3">>), name |-> Some(<<"Z">>),
           accession_number |-> None]

SampleStudyPairs == {<<Sample1, Study2>>, <<Sample1W, Study2>>, <<Sample2, Study3>>}

Tag_a1 == <<"a", "-", "1">>
Tag_b01 == <<"b", "-", "0", "1">>
Tag_c2 == <<"c", "-", "2">>
Tag_u3 == <<"a", "-", "U+0663">>
Tag_bad == <<"b">>

TagIdentifiers ==
    {None, Some(<<>>), Some(Tag_a1), Some(Tag_b01), Some(Tag_c2),
     Some(Tag_u3), Some(Tag_bad)}

Rows ==
    {[tag_identifier |-> t, sample |-> p[1], study |-> p[2]] :
        t \in TagIdentifiers, p \in SampleStudyPairs}

\* The row sets of one (experiment, slot): rows differ in tag_identifier.
Warehouses ==
    {w \in SUBSET Rows :
        /\ Cardinality(w) <= MaxPlex
        /\ \A r1, r2 \in w : r1.tag_identifier = r2.tag_identifier => r1 = r2}

Barcode01 == Root \o <<BarcodePrefix \o <<"0", "1">> >>
Barcode02 == Root \o <<BarcodePrefix \o <<"0", "2">> >>
Barcode0u3 == Root \o <<BarcodePrefix \o <<"0", "U+0663">> >>
File == <<"f">>

AllPaths ==
    {Root, Root \o <<File>>, Barcode01, Barcode01 \o <<File>>, Barcode02, Barcode0u3}

\* The run folder as the ingest leaves it (tests/conftest.py, ont_synthetic):
\* every collection and file, the instrument AVUs on the run folder, and no
\* grant to any study group.
IngestedStore ==
    [nodes |-> AllPaths,
     meta |-> [q \in AllPaths |-> IF q = Root THEN BagOfSeq(InstrumentAVUs) ELSE EmptyBag],
     acl |-> [q \in AllPaths |-> {}]]

\* The ingested run folder after an earlier invocation annotated barcode01
\* for the row (a-1, Sample2, Study3).
AnnotatedStore ==
    LET r == LoopBody(IngestedStore.meta, IngestedStore.acl, AllPaths, Root,
                      [tag_identifier |-> Some(Tag_a1), sample |-> Sample2,
                       study |-> Study3])
    IN  [nodes |-> AllPaths, meta |-> r.meta, acl |-> r.acl]

\* The stores an invocation may start from: the two above; a run folder
\* whose barcode01 collection was not made; no run folder at all.
InitStores ==
    { IngestedStore,
      AnnotatedStore,
      [nodes |-> {Root, Root \o <<File>>, Barcode02},
       meta |-> [q \in AllPaths |-> EmptyBag],
       acl |-> [q \in AllPaths |-> {}]],
      [nodes |-> {},
       meta |-> [q \in AllPaths |-> EmptyBag],
       acl |-> [q \in AllPaths |-> {}]] }

NoSnapshot == [taken |-> FALSE, plex_info |-> <<>>, meta |-> [q \in AllPaths |-> EmptyBag],
               acl |-> [q \in AllPaths |-> {}], outcome |-> "none"]

Init ==
    /\ mlwh \in Warehouses
    /\ \E s \in InitStores : nodes = s.nodes /\ meta = s.meta /\ acl = s.acl
    /\ pc = "idle"
    /\ plex_info = <<>>
    /\ idx = 1
    /\ coll = Root
    /\ outcome = "none"
    /\ done = <<>>
    /\ runs = 0
    /\ updates = 0
    /\ prev = NoSnapshot
    /\ cin = <<>>
    /\ cout = <<>>

\* Lines 85-94: the query, and the instrument AVUs added to the collection
\* at path; add_metadata raises when the collection does not exist.
Annotate_Begin ==
    /\ pc = "idle"
    /\ runs < MaxRuns
    /\ runs' = runs + 1
    /\ plex_info' = find_ont_plex_info(mlwh)
    /\ prev' = [taken |-> runs > 0, plex_info |-> plex_info, meta |-> meta,
                acl |-> acl, outcome |-> outcome]
    /\ coll' = Root
    /\ done' = <<>>
    /\ idx' = 1
    /\ LET r == AddMetadata(meta, nodes, Root, InstrumentAVUs) IN
       IF r.ok
       THEN /\ meta' = r.val
            /\ pc' = "loop"
            /\ outcome' = "running"
       ELSE /\ meta' = meta
            /\ pc' = "idle"
            /\ outcome' = r.err
    /\ UNCHANGED <<mlwh, nodes, acl, updates, cin, cout>>

\* Lines 98-128: one iteration of the loop; an exception ends the invocation.
Annotate_Row ==
    /\ pc = "loop"
    /\ idx <= Len(plex_info)
    /\ LET r == LoopBody(meta, acl, nodes, coll, plex_info[idx]) IN
       /\ meta' = r.meta
       /\ acl' = r.acl
       /\ coll' = r.coll
       /\ IF r.ok
          THEN /\ idx' = idx + 1
               /\ done' = Append(done, [fc |-> plex_info[idx], path |-> r.coll])
               /\ UNCHANGED <<pc, outcome>>
          ELSE /\ pc' = "idle"
               /\ outcome' = r.err
               /\ UNCHANGED <<idx, done>>
    /\ UNCHANGED <<mlwh, nodes, plex_info, runs, updates, prev, cin, cout>>

\* The loop is exhausted: the function returns None.
Annotate_Return ==
    /\ pc = "loop"
    /\ idx > Len(plex_info)
    /\ pc' = "idle"
    /\ outcome' = "ok"
    /\ UNCHANGED <<mlwh, nodes, meta, acl, plex_info, idx, coll, done, runs, updates,
                   prev, cin, cout>>

\* Between two invocations the LIMS gives one row another sample and study.
WarehouseUpdate ==
    /\ pc = "idle"
    /\ updates < runs
    /\ runs < MaxRuns
    /\ \E r \in mlwh, p \in SampleStudyPairs :
          /\ <<r.sample, r.study>> # p
          /\ mlwh' = (mlwh \ {r}) \cup {[r EXCEPT !.sample = p[1], !.study = p[2]]}
    /\ updates' = updates + 1
    /\ UNCHANGED <<nodes, meta, acl, pc, plex_info, idx, coll, outcome, done, runs,
                   prev, cin, cout>>

Next == Annotate_Begin \/ Annotate_Row \/ Annotate_Return \/ WarehouseUpdate

Spec == Init /\ [][Next]_vars

(***************************************************************************)
(* Properties of annotate_results_collection.                              *)
(***************************************************************************)
Ended == pc = "idle" /\ runs > 0

\* The values a path holds under an attribute of a namespace
ValuesAt(path, namespace, attribute) ==
    {x.value : x \in {y \in BagToSet(meta[path]) :
                        y.namespace = namespace /\ y.attribute = attribute}}

\* The levels a user holds on a path
LevelsAt(a, path, user) == {x.perm : x \in {y \in a[path] : y.user = user}}

\* The path a row resolves to, by the design: the root for a row without
\* tag identifier, the barcode sub-collection of its tag index otherwise.
DigitSuffix(s) ==
    LET n == CHOOSE k \in 0..Len(s) :
                /\ \A j \in (Len(s) - k + 1)..Len(s) : s[j] \in Digits
                /\ (k < Len(s) => s[Len(s) - k] \notin Digits)
    IN  SubSeq(s, Len(s) - n + 1, Len(s))

WellFormed(s) ==
    /\ Len(DigitSuffix(s)) > 0
    /\ Len(s) > Len(DigitSuffix(s))
    /\ s[Len(s) - Len(DigitSuffix(s))] = "-"

HasTag(fc) == ~IsNone(fc.tag_identifier) /\ fc.tag_identifier # Some(<<>>)

WellFormedRow(fc) == HasTag(fc) /\ WellFormed(fc.tag_identifier[1])

IndexOf(fc) == ParseInt(DigitSuffix(fc.tag_identifier[1]))

\* The digits as the identifier writes them, zero-padded to width 2
Padded(ds) == IF Len(ds) = 1 THEN <<"0">> \o ds ELSE ds

TargetOf(fc) ==
    IF HasTag(fc)
    THEN Root \o <<BarcodePrefix \o Padded(DigitSuffix(fc.tag_identifier[1]))>>
    ELSE Root

\* C1: an invocation that runs on the same query result as the invocation
\* before it leaves every path with the AVUs (none twice) and the access
\* controls the invocation before it left.
C1_Idempotent ==
    (Ended /\ prev.taken /\ prev.plex_info = plex_info)
        => (meta = prev.meta /\ acl = prev.acl)

C1_Witness ==
    /\ Ended /\ prev.taken /\ prev.plex_info = plex_info
    /\ outcome = "ok"
    /\ Len(done) = 2
    /\ \E d \in SeqToSet(done) : meta[d.path] # EmptyBag /\ acl[d.path] # {}

\* C2: after an invocation that returned, every path to which a row with a
\* consent-withdrawn sample resolves holds no access for the group of that
\* row's study, whatever the other rows resolving to the path say.
C2_ConsentMonotone ==
    (Ended /\ outcome = "ok")
        => \A i \in 1..Len(plex_info) :
              plex_info[i].sample.consent_withdrawn
                  => LevelsAt(acl, done[i].path, irods_group(plex_info[i].study)) = {}

N == Len(plex_info)

Annotated(i) ==
    \E k \in 1..Len(done) :
        /\ done[k].fc = plex_info[i]
        /\ done[k].path = TargetOf(plex_info[i])
        /\ (HasTag(plex_info[i]) =>
               IntToStr(IndexOf(plex_info[i])) \in ValuesAt(done[k].path, "", "tag_index"))

DonePaths == {done[k].path : k \in 1..Len(done)}

AllWellFormed == \A i \in 1..N : WellFormedRow(plex_info[i])

DistinctIndices ==
    \A i, j \in 1..N : IndexOf(plex_info[i]) = IndexOf(plex_info[j]) => i = j

TargetsExist == Root \in nodes /\ \A i \in 1..N : TargetOf(plex_info[i]) \in nodes

\* C3 as claimed, for rows it plainly means (identifiers that parse, targets
\* that exist): N rows that all carry a tag identifier, the identifiers
\* pairwise distinct, are annotated on N distinct barcode sub-collections of
\* the root; a single row without tag identifier on the root alone.
C3_PlexCompleteness_AsClaimed ==
    Ended =>
        /\ (N >= 1 /\ AllWellFormed /\ TargetsExist)
              => /\ Len(done) = N
                 /\ Cardinality(DonePaths) = N
                 /\ \A q \in DonePaths : IsUnder(q, Root)
        /\ (N = 1 /\ IsNone(plex_info[1].tag_identifier) /\ Root \in nodes)
              => DonePaths = {Root} /\ Len(done) = 1

\* C3 (amended): N rows whose tag identifiers all end in -<digits>, with
\* pairwise distinct tag indices, and whose barcode sub-collections exist,
\* are annotated on exactly N distinct paths, row i on
\* root/barcode_name(identifier i); a single row without tag identifier, the
\* root existing, is annotated on the root alone.
C3_PlexCompleteness ==
    Ended =>
        /\ (N >= 1 /\ AllWellFormed /\ DistinctIndices /\ TargetsExist)
              => /\ outcome = "ok"
                 /\ Len(done) = N
                 /\ Cardinality(DonePaths) = N
                 /\ \A i \in 1..N :
                       /\ done[i].fc = plex_info[i]
                       /\ done[i].path = Root \o <<barcode_name(plex_info[i].tag_identifier[1]).val>>
                       /\ Annotated(i)
        /\ (N = 1 /\ IsNone(plex_info[1].tag_identifier) /\ Root \in nodes)
              => /\ outcome = "ok"
                 /\ done = <<[fc |-> plex_info[1], path |-> Root]>>

C3_Witness ==
    /\ Ended /\ N = 2 /\ AllWellFormed /\ DistinctIndices /\ TargetsExist
    /\ Cardinality(DonePaths) = 2

\* C6: when a row's tag identifier has no trailing -<digits>, the invocation
\* reports the invalid identifier and every row of the position with a
\* well-formed identifier (and an existing barcode sub-collection) is
\* annotated all the same, before or after the malformed row in the order.
C6_MalformedIsolation ==
    (Ended /\ Root \in nodes
       /\ (\E j \in 1..N : HasTag(plex_info[j]) /\ ~WellFormedRow(plex_info[j]))
       /\ (\A i \in 1..N : WellFormedRow(plex_info[i]) => TargetOf(plex_info[i]) \in nodes))
        => /\ outcome = "ValueError"
           /\ \A i \in 1..N :
                 (WellFormedRow(plex_info[i]) /\ TargetOf(plex_info[i]) \in nodes)
                     => Annotated(i)

\* C7: when the collection of a resolved target does not exist, every other
\* row of the invocation whose target exists is still annotated, and the
\* invocation reports success exactly when every row was annotated.
C7_BestEffort ==
    (Ended /\ Root \in nodes
       /\ \A j \in 1..N : HasTag(plex_info[j]) => WellFormedRow(plex_info[j]))
        => /\ \A i \in 1..N : TargetOf(plex_info[i]) \in nodes => Annotated(i)
           /\ (outcome = "ok") <=> (\A i \in 1..N : Annotated(i))

Mixed ==
    /\ \E i \in 1..N : IsNone(plex_info[i].tag_identifier)
    /\ \E j \in 1..N : HasTag(plex_info[j])

Unnamespaced(b) == {x \in BagToSet(b) : x.namespace = ""}

\* C8: an invocation on rows that mix presence and absence of a tag
\* identifier aborts: it does not return normally, and it leaves the access
\* controls and the sample, study and tag_index AVUs of every path as it
\* found them.
C8_InconsistentAborts ==
    (Ended /\ Mixed)
        => /\ outcome # "ok"
           /\ done = <<>>
           /\ acl = prev.acl
           /\ \A q \in AllPaths : Unnamespaced(meta[q]) = Unnamespaced(prev.meta[q])

DerivedAVUs(fc) ==
    SeqToSet(make_study_metadata(fc.study))
        \cup SeqToSet(make_sample_metadata(fc.sample))
        \cup (IF HasTag(fc) /\ tag_index(fc.tag_identifier[1]).ok
              THEN {AVU("tag_index", IntToStr(tag_index(fc.tag_identifier[1]).val))}
              ELSE {})

LastDone == done[Len(done)]

\* C9: once a row is annotated, its path holds under the namespace and
\* attribute of every derived AVU exactly one value, the derived one: a
\* value the path held there before is gone.
C9_TagUpsert ==
    Len(done) > 0
        => \A x \in DerivedAVUs(LastDone.fc) :
              ValuesAt(LastDone.path, x.namespace, x.attribute) = {x.value}

DerivedLevels(fc) == IF fc.sample.consent_withdrawn THEN {} ELSE {"read"}

\* C10: once a row is annotated, its path and every object stored beneath
\* the path hold for the group ss_<study id> exactly the derived level (read,
\* or no access once consent is withdrawn), whatever they held before.
C10_RecursiveGrant ==
    Len(done) > 0
        => \A q \in {LastDone.path} \cup {x \in nodes : IsUnder(x, LastDone.path)} :
              LevelsAt(acl, q, irods_group(LastDone.fc.study)) = DerivedLevels(LastDone.fc)

\* A read grant of an earlier invocation on an object beneath the path is
\* revoked by a row whose sample has withdrawn consent.
C10_Witness ==
    /\ Len(done) > 0
    /\ runs >= 2
    /\ LastDone.fc.sample.consent_withdrawn
    /\ \E q \in nodes :
          /\ IsUnder(q, LastDone.path)
          /\ "read" \in LevelsAt(prev.acl, q, irods_group(LastDone.fc.study))
          /\ LevelsAt(acl, q, irods_group(LastDone.fc.study)) = {}

\* C11: an invocation whose query returns no row (the run folder existing)
\* returns without error and leaves the AVUs and the access controls of
\* every path, the run folder included, as it found them.
C11_EmptyResultSet ==
    (Ended /\ N = 0 /\ Root \in nodes)
        => /\ outcome = "ok"
           /\ done = <<>>
           /\ meta = prev.meta
           /\ acl = prev.acl

\* The AVUs a path holds that it did not hold when the invocation began
Added(q) == BagToSet(meta[q]) \ BagToSet(prev.meta[q])

SampleStudyAVUs(fc) ==
    SeqToSet(make_study_metadata(fc.study)) \cup SeqToSet(make_sample_metadata(fc.sample))

CarriesOwn(i) ==
    LET fc == plex_info[i]
        p == TargetOf(fc)
    IN  /\ IsUnder(p, Root)
        /\ ValuesAt(p, "", "tag_index") \cap {IntToStr(IndexOf(fc))} # {}
        /\ SampleStudyAVUs(fc) \subseteq BagToSet(meta[p])
        /\ Added(p) \subseteq SampleStudyAVUs(fc) \cup {AVU("tag_index", IntToStr(IndexOf(fc)))}
        /\ LevelsAt(acl, p, irods_group(fc.study)) = DerivedLevels(fc)

\* C12 as claimed, for rows whose identifiers parse and whose barcode
\* sub-collections exist: after the invocation the sub-collection
\* root/barcode<nn> of every row holds tag_index = n and the row's own
\* sample and study AVUs, was given no AVU of another row, and holds the
\* level derived from the row for the group of the row's study.
C12_Multiplexed_AsClaimed ==
    (Ended /\ N >= 1 /\ AllWellFormed /\ TargetsExist)
        => \A i \in 1..N : CarriesOwn(i)

\* C12 (amended): the same for rows whose tag indices are pairwise distinct.
C12_Multiplexed ==
    (Ended /\ N >= 1 /\ AllWellFormed /\ DistinctIndices /\ TargetsExist)
        => /\ outcome = "ok"
           /\ \A i \in 1..N : CarriesOwn(i)

C12_Witness ==
    /\ Ended /\ N = 2 /\ AllWellFormed /\ DistinctIndices /\ TargetsExist
    /\ plex_info[1].sample # plex_info[2].sample
    /\ plex_info[1].study # plex_info[2].study
    /\ \A i \in 1..N : CarriesOwn(i)

\* C13: after an invocation on a single row without tag identifier, the run
\* folder existing, the run folder holds the row's sample and study AVUs and
\* ont:experiment_name and ont:instrument_slot, and every other path holds
\* the AVUs it held before, so that none gained a tag_index.
C13_Unplexed ==
    (Ended /\ N = 1 /\ ~HasTag(plex_info[1]) /\ Root \in nodes)
        => /\ outcome = "ok"
           /\ SampleStudyAVUs(plex_info[1]) \subseteq BagToSet(meta[Root])
           /\ ValuesAt(Root, "ont", "experiment_name") = {ExperimentName}
           /\ ValuesAt(Root, "ont", "instrument_slot") = {IntToStr(InstrumentSlot)}
           /\ \A q \in nodes \ {Root} : meta[q] = prev.meta[q]

C13_Witness ==
    /\ Ended /\ N = 1 /\ IsNone(plex_info[1].tag_identifier) /\ outcome = "ok"
    /\ SampleStudyAVUs(plex_info[1]) \subseteq Added(Root)
    /\ \E q \in nodes \ {Root} : meta[q] # EmptyBag

\* The rows of the invocation in the order f, a permutation of 1..N
Reordered(f) == [i \in 1..N |-> plex_info[f[i]]]

\* The invocation on the rows in the order f, from the store it began with
InOrder(f) ==
    RunLoop(AddMetadata(prev.meta, nodes, Root, InstrumentAVUs).val, prev.acl,
            nodes, Root, Reordered(f))

\* C14: for rows that all carry identifiers that parse, their collections
\* existing, the AVUs and the access controls the invocation leaves on the
\* path of every row are those which the loop leaves there when it takes the
\* rows in any other order, rows sharing a barcode sub-collection included.
C14_OrderInsensitive ==
    (Ended /\ N >= 1 /\ AllWellFormed /\ TargetsExist)
        => \A f \in Permutations(1..N) :
              /\ InOrder(f).ok
              /\ \A i \in 1..N :
                    /\ InOrder(f).meta[TargetOf(plex_info[i])] = meta[TargetOf(plex_info[i])]
                    /\ InOrder(f).acl[TargetOf(plex_info[i])] = acl[TargetOf(plex_info[i])]

\* The users named by the access controls of a path, now or when the
\* invocation began
UsersAt(q) == {x.user : x \in acl[q] \cup prev.acl[q]}

\* A row resolves to the path q or to a collection above q
ResolvesOver(fc, q) ==
    /\ ~HasTag(fc) \/ WellFormed(fc.tag_identifier[1])
    /\ q = TargetOf(fc) \/ IsUnder(q, TargetOf(fc))

\* The row of the invocation before that had the tag identifier of row i
\* and another study
FormerStudies(i) ==
    {prev.plex_info[j].study : j \in {k \in 1..Len(prev.plex_info) :
        /\ prev.plex_info[k].tag_identifier = plex_info[i].tag_identifier
        /\ prev.plex_info[k].study # plex_info[i].study}}

\* C15: the level a user holds on a path differs from the level held when
\* the invocation began only where the user is the group ss_<study id> of a
\* row resolving to the path or to a collection above it.
C15_AclFrame ==
    runs > 0
        => \A q \in nodes : \A u \in UsersAt(q) :
              LevelsAt(acl, q, u) # LevelsAt(prev.acl, q, u)
                  => \E i \in 1..N :
                        /\ u = irods_group(plex_info[i].study)
                        /\ ResolvesOver(plex_info[i], q)

\* A row was given another study between two invocations: its path holds
\* the grant of the former study's group still, beside the new one.
C15_Witness ==
    /\ Ended /\ prev.taken /\ outcome = "ok" /\ N >= 1
    /\ \E i \in 1..N : \E st \in FormerStudies(i) :
          /\ irods_group(st) # irods_group(plex_info[i].study)
          /\ done[i].path = TargetOf(plex_info[i])
          /\ LevelsAt(prev.acl, done[i].path, irods_group(st)) = {"read"}
          /\ LevelsAt(acl, done[i].path, irods_group(st)) = {"read"}
          /\ LevelsAt(prev.acl, done[i].path, irods_group(plex_info[i].study)) = {}
          /\ LevelsAt(acl, done[i].path, irods_group(plex_info[i].study)) = {"read"}

(***************************************************************************)
(* The identifier codec and the metadata deriver as pure functions: the    *)
(* input is drawn from a bounded set and the functions are applied to it.  *)
(***************************************************************************)
AnnotatorAtRest ==
    /\ mlwh = {}
    /\ nodes = {}
    /\ meta = [q \in AllPaths |-> EmptyBag]
    /\ acl = [q \in AllPaths |-> {}]
    /\ pc = "idle"
    /\ plex_info = <<>>
    /\ idx = 1
    /\ coll = Root
    /\ outcome = "none"
    /\ done = <<>>
    /\ runs = 0
    /\ updates = 0
    /\ prev = NoSnapshot

CodecAlphabet == {"a", "-", "0", "1", "U+0663", "\n"}

CodecInputs == UNION {[1..n -> CodecAlphabet] : n \in 0..MaxLen}

CodecInit ==
    /\ AnnotatorAtRest
    /\ cin \in CodecInputs
    /\ cout = [applied |-> FALSE]

Codec_Apply ==
    /\ cout.applied = FALSE
    /\ cout' = [applied |-> TRUE,
                tag_index |-> tag_index(cin),
                barcode_name |-> barcode_name(cin)]
    /\ UNCHANGED <<annotVars, cin>>

CodecSpec == CodecInit /\ [][Codec_Apply]_vars

\* C4: for an identifier <prefix>-<digits> tag_index returns <digits> as an
\* integer and barcode_name returns "barcode" and <digits> zero-padded to
\* width 2 (longer digit strings whole); for every other string both raise
\* the invalid identifier error.
C4_Codec ==
    cout.applied =>
        IF WellFormed(cin)
        THEN /\ cout.tag_index = Ret(ParseInt(DigitSuffix(cin)))
             /\ cout.barcode_name =
                  Ret(BarcodePrefix \o
                        (IF Len(DigitSuffix(cin)) = 1
                         THEN <<"0">> \o DigitSuffix(cin) ELSE DigitSuffix(cin)))
        ELSE /\ cout.tag_index = Raise("ValueError")
             /\ cout.barcode_name = Raise("ValueError")

FieldValues == {None, Some(<<>>), Some(<<"x">>)}

Samples ==
    [sanger_sample_id : FieldValues, name : FieldValues,
     accession_number : FieldValues, donor_id : FieldValues,
     supplier_name : FieldValues, consent_withdrawn : BOOLEAN]

Studies == [id_study_lims : FieldValues, name : FieldValues, accession_number : FieldValues]

DeriverInit ==
    /\ AnnotatorAtRest
    /\ cin \in [sample : Samples, study : Studies]
    /\ cout = [applied |-> FALSE]

Deriver_Apply ==
    /\ cout.applied = FALSE
    /\ cout' = [applied |-> TRUE,
                sample_metadata |-> make_sample_metadata(cin.sample),
                study_metadata |-> make_study_metadata(cin.study),
                sample_acl |-> make_sample_acl(cin.sample, cin.study)]
    /\ UNCHANGED <<annotVars, cin>>

DeriverSpec == DeriverInit /\ [][Deriver_Apply]_vars

HasValue(o) == ~IsNone(o) /\ o # Some(<<>>)

TagFor(avus, attribute, field) ==
    /\ (\E i \in 1..Len(avus) : avus[i].attribute = attribute) => HasValue(field)
    /\ \A i \in 1..Len(avus) : avus[i].attribute = attribute => avus[i].value # <<>>

\* C5: the derived tags hold a tag for a field of the study or the sample
\* only if the field is neither null nor empty, and never a tag with an
\* empty value.
C5_OptionalFieldOmission ==
    cout.applied =>
        /\ TagFor(cout.study_metadata, "study_id", cin.study.id_study_lims)
        /\ TagFor(cout.study_metadata, "study", cin.study.name)
        /\ TagFor(cout.study_metadata, "study_accession_number", cin.study.accession_number)
        /\ TagFor(cout.sample_metadata, "sample_id", cin.sample.sanger_sample_id)
        /\ TagFor(cout.sample_metadata, "sample", cin.sample.name)
        /\ TagFor(cout.sample_metadata, "sample_accession_number",
                  cin.sample.accession_number)
        /\ TagFor(cout.sample_metadata, "sample_donor_id", cin.sample.donor_id)
        /\ TagFor(cout.sample_metadata, "sample_supplier_name", cin.sample.supplier_name)

====
